---- MODULE Spec2Model ----
(***************************************************************************)
(* Verification model of the WebGPU path tracer.                           *)
(*                                                                         *)
(* Part I   the progressive renderer: Renderer (renderer.ts), the          *)
(*          RaytracePass scene/bind-group bookkeeping (passes/raytrace.ts) *)
(*          and the UI handlers that drive them (main.ts).                 *)
(* Part II  the BVH builder (passes/raytrace.ts) and the ray/BVH           *)
(*          traversal of the integrator shader (shaders/raytrace.wgsl).    *)
(***************************************************************************)
EXTENDS Integers, Sequences, FiniteSets, TLC

(***************************************************************************)
(* Bounds of the model.                                                    *)
(***************************************************************************)
MaxFrames == 3          \* sample budgets range over MinFrames..MaxFrames
MaxTextures == 3        \* storage textures created after construction
MaxBuilds == 2          \* scene builds performed after construction
MaxSceneTriangles == 1  \* triangles of a loaded scene range over 0..this
MaxCanvas == 2          \* canvas sizes range over 1..this
MaxKnob == 1            \* camera, maxBounces range over 0..this
MaxTris == 3            \* scenes given to the BVH builder have 0..this triangles
TinyStack == 3          \* reduced traversal stack depths range over 2..this
EnvWidth == 2           \* columns of the environment image (1024 in the program)
EnvHeight == 2          \* rows of the environment image (512 in the program)
MaxUpdates == 3         \* calls of KeyboardControls.update()
MaxBuffers == 3         \* result buffers a TimingHelper creates

(***************************************************************************)
(* Program constants.                                                      *)
(***************************************************************************)
MinFrames == 2          \* the "frames" binding's minimum
InitialFrame == 1       \* Renderer._frame's initial value, and reset()'s

VARIABLES
  status,           \* Renderer.status
  frame,            \* Renderer._frame
  frames,           \* Renderer.frames, the sample budget
  samplesPerFrame,  \* Renderer.samplesPerFrame
  scalingFactor,    \* Renderer._scalingFactor
  canvas,           \* the canvas size (one number stands for width x height)
  outputTexture,    \* Renderer.outputTexture, as the identity of the texture
  textures,         \* number of storage textures created so far
  camera,           \* the camera object's parameters (one number)
  maxBounces,       \* PARAMS.maxBounces of the UI
  sceneTriangles,   \* number of triangles of the scene graph
  needsUpdate,      \* scene.needsUpdate
  triangleBuffer,   \* RaytracePass.triangleBuffer, as the build that made it
  materialBuffer,   \* RaytracePass.materialBuffer, likewise
  bvhBuffer,        \* RaytracePass.bvhBuffer, likewise
  builds,           \* number of scene builds performed so far
  bindGroup,        \* RaytracePass.bindGroup
  uniforms,         \* RaytracePass.uniforms
  accUniforms,      \* AccumulatePass uniforms (accumulate.wgsl Uniforms)
  accumulated,      \* the accumulated image, as coefficients of its inputs
  emitted,          \* events emitted by the last handler, in order
  encoded,          \* passes encoded by the last handler, in order
  dispatched,       \* what the last integrator dispatch was bound to
  sampledTicks,     \* integrator dispatches since the last reset (history)
  mergedConfigs,    \* configurations of the samples merged since the last reset
  loopAlive,        \* the requestAnimationFrame loop is still scheduled
  quiet,            \* scenario flag: only ticks happen from now on
  outputTexturePrev,\* Renderer.outputTexturePrev of the two-texture renderer
  prevView,         \* the outputTexturePrev view in that renderer's raytrace bind group
  fullscreenGroup,  \* the texture view in FullscreenPass's bind group
  accGroup,         \* the texture views in AccumulatePass's bind group
  used,             \* the textures the passes of the last tick read or wrote
  lastProgress,     \* the value of the latest "progress" event since the last reset
  triangles,        \* updateScene's triangle array, as uploaded to triangleBuffer
  bvhNodes,         \* flattenBVH's node array, as uploaded to bvhBuffer
  ray,              \* the ray of the traversal under way
  stack,            \* rayBVHIntersect's stack, entries 0..stackSize-1
  hit,              \* rayBVHIntersect's best hit so far
  stackLimit,       \* the stack depth the shader was compiled with
  pc,               \* where the build and the traversal stand
  environmentTexture,    \* Renderer.environmentTexture: the texels written to it
  environmentCDFTexture, \* Renderer.environmentCDFTexture: the texels written to it
  envInput,         \* the texture last passed to updateEnvironmentTexture
  envError,         \* the error that call threw, or "none"
  fov,              \* RaytracingCamera.fov
  aperture,         \* RaytracingCamera.aperture
  focalDistance,    \* RaytracingCamera.focalDistance
  updates,          \* calls of KeyboardControls.update() so far
  probe,            \* two invocations of computeMain within one accumulation run
  timingState,      \* TimingHelper.#state
  resultBuffer,     \* TimingHelper.#resultBuffer (0 = null)
  resultBuffers,    \* TimingHelper.#resultBuffers, the pool of buffers to reuse
  mapping,          \* result buffers with a map request outstanding, or mapped
  created           \* result buffers created so far, numbered 1..created

rvars == <<status, frame, frames, samplesPerFrame, scalingFactor, canvas, outputTexture,
           textures, camera, maxBounces, sceneTriangles, needsUpdate,
           triangleBuffer, materialBuffer, bvhBuffer, builds, bindGroup,
           uniforms, accUniforms, accumulated, emitted, encoded, dispatched,
           sampledTicks, mergedConfigs, loopAlive, quiet,
           outputTexturePrev, prevView, fullscreenGroup, accGroup, used, lastProgress>>

bvars == <<triangles, bvhNodes, ray, stack, hit, stackLimit, pc>>

evars == <<environmentTexture, environmentCDFTexture, envInput, envError>>

\* The camera fields the keyboard changes, in the steps the keys move them by:
\* fov in halves of a degree, aperture in hundredths, focalDistance in tenths;
\* updates counts the calls of KeyboardControls.update().
kvars == <<fov, aperture, focalDistance, updates>>

\* The two invocations of the integrator whose seeds are compared.
svars == <<probe>>

\* One TimingHelper.
tvars == <<timingState, resultBuffer, resultBuffers, mapping, created>>

vars == <<rvars, bvars, evars, kvars, svars, tvars>>

(***************************************************************************)
(* Part I.  The progressive renderer.                                      *)
(***************************************************************************)

Statuses == {"idle", "sampling", "paused"}

\* An emitted event; only "progress" carries a value, the fraction num/den.
Event(n) == [name |-> n, num |-> 0, den |-> 1]

\* Renderer.progress as emitted by render(): _frame / (frames + 1).
ProgressEvent(f, budget) == [name |-> "progress", num |-> f, den |-> budget + 1]

Has(evs, n) == \E i \in 1..Len(evs) : evs[i].name = n

\* RaytracePass.createBindGroup: the buffers and the texture view bound.
CreateBindGroup(tri, mat, bvh, out) ==
  [triangleBuffer |-> tri, materialBuffer |-> mat, bvhBuffer |-> bvh,
   outputTexture |-> out]

NoDispatch == [bound |-> FALSE, group |-> CreateBindGroup(0, 0, 0, 0), frame |-> 0]

Dispatch(group, f) == [bound |-> TRUE, group |-> group, frame |-> f]

\* Renderer.hasFramesToSample
HasFramesToSample_strict(f, budget) == f < budget
HasFramesToSample(f, budget) == f <= budget

ShouldSample_ignoreStatus(st, f, budget) == HasFramesToSample(f, budget)

\* render(): shouldSample
ShouldSample(st, f, budget) == st = "sampling" /\ HasFramesToSample(f, budget)

\* The frame setter: stores the value; past the budget it sets status idle
\* and emits "complete".
SetFrame_noIdle(value, budget, st) ==
  [frame |-> value, status |-> st, events |-> <<>>]
SetFrame(value, budget, st) ==
  IF value > budget
  THEN [frame |-> value, status |-> "idle", events |-> <<Event("complete")>>]
  ELSE [frame |-> value, status |-> st, events |-> <<>>]

\* reset(): the status restored after the reset event was emitted.
ResetStatus_keep(prevStatus) == prevStatus
ResetStatus(prevStatus) == IF prevStatus = "idle" THEN "sampling" ELSE prevStatus

\* start(): the status it sets.
StartStatus_always(f, budget) == "sampling"
StartStatus(f, budget) == IF f > budget THEN "idle" ELSE "sampling"

\* pause(): the status it sets and the events it emits.
PauseEffect(st) ==
  IF st # "paused"
  THEN [status |-> "paused", events |-> <<Event("pause")>>]
  ELSE [status |-> st, events |-> <<>>]

\* buildBVHRecursive throws on an empty input array; buildBVH passes one node
\* per triangle.
BuildThrows(nTriangles) == nTriangles = 0

\* updateScene: the bind group it re-creates for the environment texture is
\* created before the BVH, triangle and material buffers are replaced.
EnvRebind_late(tri, mat, bvh, newBuild, out) == CreateBindGroup(tri, mat, newBuild, out)
EnvRebind(tri, mat, bvh, newBuild, out) == CreateBindGroup(tri, mat, bvh, out)

\* RaytracePass.update
RaytraceUpdate(u, f, spf, res) ==
  [u EXCEPT !.frame = f, !.samplesPerFrame = spf, !.resolution = res]

\* AccumulatePass.update: writes the frame counter to the merge pass's uniforms.
AccumulateUpdate(u, f) == [u EXCEPT !.frame = f]

\* accumulate.wgsl: weight = 1.0 / f32(uniforms.frame), or 1.0 when disabled.
\* The weight is 1/MergeWeightDen.
MergeWeightDen(u) == IF u.enabled = 0 THEN 1 ELSE u.frame

RECURSIVE Gcd(_, _)
Gcd(a, b) == IF b = 0 THEN a ELSE Gcd(b, a % b)

RECURSIVE GcdSeq(_)
GcdSeq(s) == IF s = <<>> THEN 0 ELSE Gcd(Head(s), GcdSeq(Tail(s)))

\* An image is a combination of the texture's initial content ("blank") and
\* of the samples merged into it: coefficient blank/den and samples[i]/den.
BlankImage == [blank |-> 1, samples |-> <<>>, den |-> 1]

\* accumulate.wgsl: newColor = mix(prevColor, color, 1/w).
Mix(img, w) ==
  LET b == img.blank * (w - 1)
      s == [i \in 1..Len(img.samples) |-> img.samples[i] * (w - 1)] \o <<img.den>>
      d == img.den * w
      g == Gcd(d, Gcd(b, GcdSeq(s)))
  IN [blank |-> b \div g, samples |-> [i \in 1..Len(s) |-> s[i] \div g], den |-> d \div g]

\* The configuration an integrator dispatch runs under.
DispatchConfig(u, group) ==
  [samplesPerFrame |-> u.samplesPerFrame, maxBounces |-> u.maxBounces,
   camera |-> u.camera, resolution |-> u.resolution, scene |-> group.bvhBuffer]

(***************************************************************************)
(* The state after construction and main.ts's set-up: the default scene is *)
(* in the scene graph and marked for update, nothing has been built yet.   *)
(***************************************************************************)
RendererInit ==
  /\ status = "idle"
  /\ frame = InitialFrame
  /\ frames \in MinFrames..MaxFrames
  /\ samplesPerFrame = 1
  /\ scalingFactor = 1
  /\ canvas = 1
  /\ outputTexture = 0
  /\ outputTexturePrev = 0
  /\ prevView = 0
  /\ fullscreenGroup = 0
  /\ accGroup = 0
  /\ used = {}
  /\ lastProgress = [num |-> 0, den |-> 1]
  /\ textures = 0
  /\ camera = 0
  /\ maxBounces = 0
  /\ sceneTriangles = 1
  /\ needsUpdate = TRUE
  /\ triangleBuffer = 0
  /\ materialBuffer = 0
  /\ bvhBuffer = 0
  /\ builds = 0
  /\ bindGroup = CreateBindGroup(0, 0, 0, 0)
  /\ uniforms = [frame |-> 0, samplesPerFrame |-> 0, resolution |-> 0,
                 maxBounces |-> 0, camera |-> 0]
  /\ accUniforms = [frame |-> 0, enabled |-> 1]
  /\ accumulated = BlankImage
  /\ emitted = <<>>
  /\ encoded = <<>>
  /\ dispatched = NoDispatch
  /\ sampledTicks = 0
  /\ mergedConfigs = {}
  /\ loopAlive = TRUE
  /\ quiet = FALSE

\* No build or traversal is under way in the renderer's specifications.
NoTraversal ==
  /\ triangles = <<>>
  /\ bvhNodes = <<>>
  /\ ray = [origin |-> <<0, 0, 0>>, direction |-> <<0, 0, 1>>]
  /\ stack = <<>>
  /\ hit = [hit |-> FALSE, t |-> [n |-> 1, d |-> 0], triangleIndex |-> -1]
  /\ stackLimit = 64
  /\ pc = "none"

\* A number of the CDF arrays: the fraction n / d, or NaN (0 / 0).
Num(n, d) == IF d = 0 THEN [n |-> 0, d |-> 0, nan |-> TRUE]
             ELSE [n |-> n, d |-> d, nan |-> FALSE]

\* createEnvironmentTexture, createEnvironmentCDFTexture: textures of the
\* required size, zero-filled until written.  A texel of the CDF texture holds
\* the marginal CDF of its row and the conditional CDF of its column (its
\* third channel is their product, its fourth is 1).
BlankEnvironmentTexture == [y \in 1..EnvHeight |-> [x \in 1..EnvWidth |-> <<0, 0, 0>>]]
BlankCDFTexture ==
  [y \in 1..EnvHeight |-> [x \in 1..EnvWidth |->
     [marginal |-> Num(0, 1), conditional |-> Num(0, 1)]]]

\* No texture has been passed to updateEnvironmentTexture yet.
NoTexture == [width |-> 0, height |-> 0, type |-> "none", data |-> <<>>]

\* No environment image is loaded in the renderer's specifications: the
\* textures are as the constructor created them.
NoEnvironment ==
  /\ environmentTexture = BlankEnvironmentTexture
  /\ environmentCDFTexture = BlankCDFTexture
  /\ envInput = NoTexture
  /\ envError = "none"

\* RaytracingCamera(45): focalDistance 1, aperture 0.
NoKeyboard ==
  /\ fov = 90
  /\ aperture = 0
  /\ focalDistance = 10
  /\ updates = 0

NoInvocation == [width |-> 0, height |-> 0, frames |-> 0, a |-> <<0, 0, 0>>, b |-> <<0, 0, 0>>]

NoProbe == probe = NoInvocation

\* TimingHelper as constructed.
NoTiming ==
  /\ timingState = "free"
  /\ resultBuffer = 0
  /\ resultBuffers = <<>>
  /\ mapping = {}
  /\ created = 0

Init == RendererInit /\ NoTraversal /\ NoEnvironment /\ NoKeyboard /\ NoProbe /\ NoTiming

\* FullscreenPass.reset, run on "reset" and "resize": the bind group is
\* re-created with a view of renderer.outputTexture.
FullscreenReset_stale(bound, out) == bound
FullscreenReset(bound, out) == out

\* AccumulatePass on "reset": its bind group is re-created with views of the
\* renderer's new texture.
AccumulateReset(bound, out) == out

\* What reset() does, given the buffers the passes see when the "reset" event
\* reaches them and the events the caller emits after it.
DoReset(tri, mat, bvh, after) ==
  /\ textures < MaxTextures
  /\ frame' = InitialFrame
  /\ status' = ResetStatus(status)
  /\ textures' = textures + 1
  /\ outputTexture' = textures + 1
  /\ outputTexturePrev' = textures + 1
  /\ prevView' = textures + 1
  /\ fullscreenGroup' = FullscreenReset(fullscreenGroup, textures + 1)
  /\ accGroup' = AccumulateReset(accGroup, textures + 1)
  /\ used' = {}
  /\ lastProgress' = [num |-> 0, den |-> 1]
  /\ bindGroup' = CreateBindGroup(tri, mat, bvh, textures + 1)
  /\ emitted' = <<Event("reset")>>
                \o (IF ResetStatus(status) = "sampling" THEN <<Event("start")>> ELSE <<>>)
                \o after
  /\ accumulated' = BlankImage
  /\ sampledTicks' = 0
  /\ mergedConfigs' = {}
  /\ encoded' = <<>>
  /\ dispatched' = NoDispatch

knobs == <<frames, samplesPerFrame, scalingFactor, camera, maxBounces>>
sceneVars == <<sceneTriangles, needsUpdate, triangleBuffer, materialBuffer, bvhBuffer, builds>>
passUniforms == <<uniforms, accUniforms>>
texViews == <<outputTexturePrev, prevView, fullscreenGroup, accGroup>>
resetVars == <<frame, status, textures, outputTexture, texViews, used, lastProgress, bindGroup, accumulated,
               sampledTicks, mergedConfigs>>

\* Renderer.reset()
ResetCall ==
  /\ DoReset(triangleBuffer, materialBuffer, bvhBuffer, <<>>)
  /\ UNCHANGED <<knobs, canvas, sceneVars, passUniforms, loopAlive, bvars, evars, kvars, svars, tvars>>

Reset == ResetCall /\ UNCHANGED quiet

\* Renderer.resize(width, height)
Resize(size) ==
  /\ canvas # size
  /\ canvas' = size
  /\ DoReset(triangleBuffer, materialBuffer, bvhBuffer, <<Event("resize")>>)
  /\ UNCHANGED <<knobs, sceneVars, passUniforms, loopAlive, quiet, bvars, evars, kvars, svars, tvars>>

\* Renderer.start()
Start ==
  /\ status' = StartStatus(frame, frames)
  /\ emitted' = <<>>
  /\ encoded' = <<>>
  /\ dispatched' = NoDispatch
  /\ UNCHANGED <<frame, textures, outputTexture, texViews, used, lastProgress, bindGroup, accumulated, sampledTicks,
                 mergedConfigs, knobs, canvas, sceneVars, passUniforms, loopAlive, quiet, bvars, evars, kvars, svars, tvars>>

\* Renderer.pause()
Pause ==
  /\ status' = PauseEffect(status).status
  /\ emitted' = PauseEffect(status).events
  /\ encoded' = <<>>
  /\ dispatched' = NoDispatch
  /\ UNCHANGED <<frame, textures, outputTexture, texViews, used, lastProgress, bindGroup, accumulated, sampledTicks,
                 mergedConfigs, knobs, canvas, sceneVars, passUniforms, loopAlive, quiet, bvars, evars, kvars, svars, tvars>>

\* One tick of main.ts's animation loop: Renderer.render(scene, camera).  When
\* updateScene throws, render() is left before anything is encoded and the
\* loop is not scheduled again.
Render ==
  /\ loopAlive
  /\ UNCHANGED <<quiet, bvars, evars, kvars, svars, tvars>>
  /\ LET camU == [uniforms EXCEPT !.camera = camera] IN
     IF needsUpdate /\ BuildThrows(sceneTriangles)
     THEN /\ uniforms' = camU
          /\ loopAlive' = FALSE
          /\ emitted' = <<>>
          /\ encoded' = <<>>
          /\ dispatched' = NoDispatch
          /\ UNCHANGED <<resetVars, knobs, canvas, sceneVars, accUniforms>>
     ELSE LET newBuild == builds + 1
              group == IF needsUpdate
                       THEN EnvRebind(triangleBuffer, materialBuffer, bvhBuffer,
                                      newBuild, outputTexture)
                       ELSE bindGroup
              sample == ShouldSample(status, frame, frames)
              set == IF sample THEN SetFrame(frame + 1, frames, status)
                     ELSE [frame |-> frame, status |-> status, events |-> <<>>]
              rtU == RaytraceUpdate(camU, set.frame, samplesPerFrame,
                                    canvas * scalingFactor)
              accU == AccumulateUpdate(accUniforms, set.frame)
          IN /\ IF needsUpdate
                THEN /\ triangleBuffer' = newBuild
                     /\ materialBuffer' = newBuild
                     /\ bvhBuffer' = newBuild
                     /\ builds' = newBuild
                     /\ needsUpdate' = FALSE
                     /\ UNCHANGED sceneTriangles
                ELSE UNCHANGED sceneVars
             /\ bindGroup' = group
             /\ frame' = set.frame
             /\ status' = set.status
             /\ uniforms' = rtU
             /\ accUniforms' = accU
             /\ emitted' = set.events
                           \o (IF sample THEN <<ProgressEvent(set.frame, frames)>> ELSE <<>>)
             /\ encoded' = (IF sample THEN <<"raytrace", "accumulate">> ELSE <<>>)
                           \o <<"fullscreen">>
             /\ dispatched' = IF sample THEN Dispatch(group, rtU.frame) ELSE NoDispatch
             /\ accumulated' = IF sample THEN Mix(accumulated, MergeWeightDen(accU))
                               ELSE accumulated
             /\ sampledTicks' = IF sample THEN sampledTicks + 1 ELSE sampledTicks
             /\ mergedConfigs' = IF sample
                                 THEN mergedConfigs \cup {DispatchConfig(rtU, group)}
                                 ELSE mergedConfigs
             /\ lastProgress' = IF sample
                                THEN [num |-> ProgressEvent(set.frame, frames).num,
                                      den |-> ProgressEvent(set.frame, frames).den]
                                ELSE lastProgress
             /\ used' = (IF sample
                         THEN {group.outputTexture, prevView, outputTexture,
                               outputTexturePrev, accGroup}
                         ELSE {})
                        \cup {fullscreenGroup}
             /\ UNCHANGED <<textures, outputTexture, texViews, knobs, canvas, loopAlive>>

\* main.ts, the "file" binding's change handler: the scene graph is replaced,
\* renderer.update(scene, camera) rebuilds the buffers, then renderer.reset().
\* When the build throws, the handler ends there.
FileChange(n) ==
  /\ builds < MaxBuilds
  /\ sceneTriangles' = n
  /\ uniforms' = [uniforms EXCEPT !.camera = camera]
  /\ IF BuildThrows(n)
     THEN /\ needsUpdate' = TRUE
          /\ emitted' = <<>>
          /\ encoded' = <<>>
          /\ dispatched' = NoDispatch
          /\ UNCHANGED <<resetVars, triangleBuffer, materialBuffer, bvhBuffer, builds>>
     ELSE /\ needsUpdate' = FALSE
          /\ triangleBuffer' = builds + 1
          /\ materialBuffer' = builds + 1
          /\ bvhBuffer' = builds + 1
          /\ builds' = builds + 1
          /\ DoReset(builds + 1, builds + 1, builds + 1, <<>>)
  /\ UNCHANGED <<knobs, canvas, accUniforms, loopAlive, quiet, bvars, evars, kvars, svars, tvars>>

\* main.ts, the "envMap" binding's change handler (after the texture loaded).
EnvMapChange ==
  /\ needsUpdate \/ builds < MaxBuilds
  /\ needsUpdate' = TRUE
  /\ DoReset(triangleBuffer, materialBuffer, bvhBuffer, <<>>)
  /\ UNCHANGED <<knobs, canvas, sceneTriangles, triangleBuffer, materialBuffer,
                 bvhBuffer, builds, passUniforms, loopAlive, quiet, bvars, evars, kvars, svars, tvars>>

\* main.ts, the "frames" binding: the last change of a series writes the
\* budget and resets.
FramesChange(v) ==
  /\ frames' = v
  /\ DoReset(triangleBuffer, materialBuffer, bvhBuffer, <<>>)
  /\ UNCHANGED <<samplesPerFrame, scalingFactor, camera, maxBounces, canvas, sceneVars,
                 passUniforms, loopAlive, quiet, bvars, evars, kvars, svars, tvars>>

Next ==
  \/ Reset
  \/ \E size \in 1..MaxCanvas : Resize(size)
  \/ Start
  \/ Pause
  \/ Render
  \/ \E n \in 0..MaxSceneTriangles : FileChange(n)
  \/ EnvMapChange
  \/ \E v \in MinFrames..MaxFrames : FramesChange(v)

Spec == Init /\ [][Next]_vars

(***************************************************************************)
(* The parameter pane of main.ts.  A binding writes the new value to its   *)
(* target on every change of a series (a slider being dragged); the        *)
(* handlers that begin with "if (!last) return" act on the last one only.  *)
(***************************************************************************)

noTick == /\ emitted' = <<>>
          /\ encoded' = <<>>
          /\ dispatched' = NoDispatch

\* The "frames" binding, a change that is not the last of its series.
FramesDrag(v) ==
  /\ v # frames
  /\ frames' = v
  /\ noTick
  /\ UNCHANGED <<resetVars, samplesPerFrame, scalingFactor, camera, maxBounces, canvas,
                 sceneVars, passUniforms, loopAlive, quiet, bvars, evars, kvars, svars, tvars>>

\* The "samplesPerFrame" binding.
SamplesPerFrameChange(v, last) ==
  /\ last \/ v # samplesPerFrame
  /\ samplesPerFrame' = v
  /\ IF last
     THEN DoReset(triangleBuffer, materialBuffer, bvhBuffer, <<>>)
     ELSE noTick /\ UNCHANGED resetVars
  /\ UNCHANGED <<frames, scalingFactor, camera, maxBounces, canvas, sceneVars,
                 passUniforms, loopAlive, quiet, bvars, evars, kvars, svars, tvars>>

\* The "maxBounces" binding.
MaxBouncesChange(v, last) ==
  /\ last \/ v # maxBounces
  /\ maxBounces' = v
  /\ IF last
     THEN /\ uniforms' = [uniforms EXCEPT !.maxBounces = v]
          /\ DoReset(triangleBuffer, materialBuffer, bvhBuffer, <<>>)
     ELSE noTick /\ UNCHANGED <<resetVars, uniforms>>
  /\ UNCHANGED <<frames, samplesPerFrame, scalingFactor, camera, canvas, sceneVars,
                 accUniforms, loopAlive, quiet, bvars, evars, kvars, svars, tvars>>

\* The "scalingFactor" binding.
ScalingFactorChange(v) ==
  /\ v # scalingFactor
  /\ scalingFactor' = v
  /\ DoReset(triangleBuffer, materialBuffer, bvhBuffer, <<>>)
  /\ UNCHANGED <<frames, samplesPerFrame, camera, maxBounces, canvas, sceneVars,
                 passUniforms, loopAlive, quiet, bvars, evars, kvars, svars, tvars>>

\* The camera bindings and the orbit controls' change listener.
CameraChange(v) ==
  /\ v # camera
  /\ camera' = v
  /\ DoReset(triangleBuffer, materialBuffer, bvhBuffer, <<>>)
  /\ UNCHANGED <<frames, samplesPerFrame, scalingFactor, maxBounces, canvas, sceneVars,
                 passUniforms, loopAlive, quiet, bvars, evars, kvars, svars, tvars>>

\* The "accumulate" binding.
AccumulateChange(v) ==
  /\ v # accUniforms.enabled
  /\ accUniforms' = [accUniforms EXCEPT !.enabled = v]
  /\ DoReset(triangleBuffer, materialBuffer, bvhBuffer, <<>>)
  /\ UNCHANGED <<knobs, canvas, sceneVars, uniforms, loopAlive, quiet, bvars, evars, kvars, svars, tvars>>

NextUI ==
  \/ Next
  \/ \E v \in MinFrames..MaxFrames : FramesDrag(v)
  \/ \E v \in 1..(MaxKnob + 1), last \in BOOLEAN : SamplesPerFrameChange(v, last)
  \/ \E v \in 0..MaxKnob, last \in BOOLEAN : MaxBouncesChange(v, last)
  \/ \E v \in 1..(MaxKnob + 1) : ScalingFactorChange(v)
  \/ \E v \in 0..MaxKnob : CameraChange(v)
  \/ \E v \in 0..1 : AccumulateChange(v)

SpecUI == Init /\ [][NextUI]_vars

(***************************************************************************)
(* An undisturbed accumulation run: after any history, a reset that yields *)
(* status sampling, then nothing but ticks of the animation loop, which    *)
(* keeps scheduling itself as long as render() returns.                    *)
(***************************************************************************)
BeginRun ==
  /\ ~quiet
  /\ ResetCall
  /\ status' = "sampling"
  /\ quiet' = TRUE

NextRun ==
  \/ ~quiet /\ Next
  \/ BeginRun
  \/ quiet /\ Render

SpecRun == Init /\ [][NextRun]_vars /\ WF_vars(quiet /\ Render)

(***************************************************************************)
(* Claims about the renderer.                                              *)
(***************************************************************************)

Encoded(pass) == \E i \in 1..Len(encoded) : encoded[i] = pass

\* The equal-weight mean of k samples.
MeanImage(k) == [blank |-> 0, samples |-> [i \in 1..k |-> 1], den |-> k]

\* C1: every reset() (the step that creates a new output texture) sets the
\* frame counter to 1 and leaves status sampling if it was idle or sampling
\* before the call, paused if it was paused.
C1_ResetContract ==
  [][textures' = textures + 1 =>
       /\ frame' = 1
       /\ status' = IF status = "paused" THEN "paused" ELSE "sampling"]_vars

\* A reset taken while paused, after sampling had advanced the counter.
C1_Witness ==
  /\ Has(emitted, "reset")
  /\ status = "paused"
  /\ frame = 1
  /\ uniforms.frame > 1

\* C2: in every reachable state 1 <= frame <= frames + 1, status is never
\* sampling while frame > frames, and the tick that emits "complete" leaves
\* status idle with the counter just above the budget.
C2_FrameWithinBudget ==
  /\ 1 <= frame /\ frame <= frames + 1
  /\ frame > frames => status # "sampling"
  /\ Has(emitted, "complete") => status = "idle" /\ frame = frames + 1

\* The tick that took the counter above the budget.
C2_Witness ==
  /\ Has(emitted, "complete")
  /\ status = "idle"
  /\ frame = frames + 1
  /\ sampledTicks = frames

C5_TickEncodes ==
  [][Render =>
       encoded' = IF status = "sampling" /\ frame <= frames
                  THEN <<"raytrace", "accumulate", "fullscreen">>
                  ELSE <<"fullscreen">>]_vars

C8_BuffersFromOneBuild ==
  dispatched.bound =>
    /\ dispatched.group.triangleBuffer = dispatched.group.bvhBuffer
    /\ dispatched.group.materialBuffer = dispatched.group.bvhBuffer

\* A dispatch bound to a rebuilt scene while a later build exists.
C8_Witness ==
  /\ dispatched.bound
  /\ dispatched.group.bvhBuffer >= 1
  /\ builds > dispatched.group.bvhBuffer

\* C4: every integrator dispatch merged into one accumulation ran under one
\* configuration: a mutation is followed by a reset before the next sample.
C4_OneConfigPerAccumulation == Cardinality(mergedConfigs) <= 1

\* C6: an undisturbed run takes exactly `frames` sampled ticks, one for each
\* frame counter value 1..frames, then turns idle with "complete" emitted by
\* the last of them, and dispatches nothing afterwards.
C6_RunCompletes ==
  /\ [](quiet => /\ sampledTicks = frame - 1
                 /\ sampledTicks <= frames
                 /\ (status = "sampling" <=> sampledTicks < frames)
                 /\ (dispatched.bound => dispatched.frame = sampledTicks + 1)
                 /\ (Has(emitted, "complete") <=> dispatched.bound /\ sampledTicks = frames))
  /\ (quiet ~> (~loopAlive \/ (status = "idle" /\ sampledTicks = frames)))
  /\ [][quiet /\ status = "idle" => status' = "idle" /\ ~dispatched'.bound]_vars

\* The end of an undisturbed run.
C6_Witness ==
  /\ quiet
  /\ status = "idle"
  /\ sampledTicks = frames
  /\ Has(emitted, "complete")

(***************************************************************************)
(* Part II.  The BVH builder (RaytracePass.buildBVH, buildBVHRecursive,    *)
(* flattenBVH) and the shader's traversal (rayTriangleIntersect,           *)
(* rayAABBIntersect, rayBVHIntersect, raySceneIntersect).                  *)
(*                                                                         *)
(* Positions and directions are integer vectors; the shader's divisions    *)
(* are carried as exact fractions [n, d] with d > 0, so comparisons are    *)
(* those of the real numbers the f32 code approximates.  INF and -INF are  *)
(* the fractions 1/0 and -1/0.                                             *)
(***************************************************************************)

\* 1 / EPSILON of raytrace.wgsl (EPSILON = 1e-6).
EpsilonInverse == 1000000

\* MAX_STACK_SIZE of raytrace.wgsl.
MAX_STACK_SIZE == 64

Min2(a, b) == IF a <= b THEN a ELSE b
Max2(a, b) == IF a >= b THEN a ELSE b
Abs(a) == IF a < 0 THEN -a ELSE a

SetMin(S) == CHOOSE x \in S : \A y \in S : x <= y
SetMax(S) == CHOOSE x \in S : \A y \in S : x >= y

Sub(p, q) == <<p[1] - q[1], p[2] - q[2], p[3] - q[3]>>
Dot(p, q) == p[1] * q[1] + p[2] * q[2] + p[3] * q[3]
Cross(p, q) == <<p[2] * q[3] - p[3] * q[2],
                 p[3] * q[1] - p[1] * q[3],
                 p[1] * q[2] - p[2] * q[1]>>

\* The fraction n / d, with a positive denominator.
Frac(n, d) == IF d < 0 THEN [n |-> -n, d |-> -d] ELSE [n |-> n, d |-> d]
INF == [n |-> 1, d |-> 0]
NegINF == [n |-> -1, d |-> 0]
Zero == [n |-> 0, d |-> 1]

FracLess(x, y) ==
  IF x.d = 0 /\ y.d = 0 THEN x.n < y.n ELSE x.n * y.d < y.n * x.d
FracMin(x, y) == IF FracLess(y, x) THEN y ELSE x
FracMax(x, y) == IF FracLess(x, y) THEN y ELSE x
FracEq(x, y) == ~FracLess(x, y) /\ ~FracLess(y, x)

\* Hit(false, ..., INF, -1): no hit.
NoHit == [hit |-> FALSE, t |-> INF, triangleIndex |-> -1]

\* rayTriangleIntersect (Moller-Trumbore).  u = U / a, v = V / a, t = T / a;
\* the comparisons are multiplied through by |a|.
RayTriangleIntersect(r, tri, index) ==
  LET edge1 == Sub(tri.b, tri.a)
      edge2 == Sub(tri.c, tri.a)
      h == Cross(r.direction, edge2)
      a == Dot(edge1, h)
      sg == IF a < 0 THEN -1 ELSE 1
      s == Sub(r.origin, tri.a)
      U == sg * Dot(s, h)
      q == Cross(s, edge1)
      V == sg * Dot(r.direction, q)
      T == sg * Dot(edge2, q)
  IN IF Abs(a) * EpsilonInverse < 1 THEN NoHit
     ELSE IF U < 0 \/ U > Abs(a) THEN NoHit
     ELSE IF V < 0 \/ U + V > Abs(a) THEN NoHit
     ELSE IF T * EpsilonInverse > Abs(a)
          THEN [hit |-> TRUE, t |-> Frac(T, Abs(a)), triangleIndex |-> index]
          ELSE NoHit

\* rayAABBIntersect's closing test.
SlabResult_ahead(tmin, tmax) == ~FracLess(tmin, Zero) /\ ~FracLess(tmax, tmin)
SlabResult(tmin, tmax) == ~FracLess(tmax, FracMax(Zero, tmin))

\* rayAABBIntersect: the loop over the axes from axis i on.
RECURSIVE SlabLoop(_, _, _, _, _, _)
SlabLoop(r, aabbMin, aabbMax, i, tmin, tmax) ==
  IF i > 3 THEN SlabResult(tmin, tmax)
  ELSE LET dir == r.direction[i]
           orig == r.origin[i]
           minVal == aabbMin[i]
           maxVal == aabbMax[i]
       IN IF Abs(dir) * EpsilonInverse < 1
          THEN IF orig < minVal \/ orig > maxVal THEN FALSE
               ELSE SlabLoop(r, aabbMin, aabbMax, i + 1, tmin, tmax)
          ELSE LET t1 == Frac(minVal - orig, dir)
                   t2 == Frac(maxVal - orig, dir)
                   tNear == FracMin(t1, t2)
                   tFar == FracMax(t1, t2)
                   tmin2 == FracMax(tmin, tNear)
                   tmax2 == FracMin(tmax, tFar)
               IN IF FracLess(tmax2, tmin2) THEN FALSE
                  ELSE SlabLoop(r, aabbMin, aabbMax, i + 1, tmin2, tmax2)

RayAABBIntersect(r, aabbMin, aabbMax) == SlabLoop(r, aabbMin, aabbMax, 1, NegINF, INF)

\* THREE.Box3.setFromPoints / expandByPoint over a non-empty set of points.
BoxOfPoints(ps) ==
  [min |-> <<SetMin({p[1] : p \in ps}), SetMin({p[2] : p \in ps}), SetMin({p[3] : p \in ps})>>,
   max |-> <<SetMax({p[1] : p \in ps}), SetMax({p[2] : p \in ps}), SetMax({p[3] : p \in ps})>>]

\* computeBBox, and the loop that grows node.bbox: every input node's min and
\* max corner.
ComputeBBox_first(nodes) == nodes[1].bbox
ComputeBBox(nodes) ==
  BoxOfPoints({nodes[i].bbox.min : i \in 1..Len(nodes)}
              \cup {nodes[i].bbox.max : i \in 1..Len(nodes)})

GetSize(box) == Sub(box.max, box.min)

GetSurfaceArea(box) ==
  LET size == GetSize(box)
  IN 2 * (size[1] * size[2] + size[1] * size[3] + size[2] * size[3])

InputNodes_firstIndex(tris) ==
  [i \in 1..Len(tris) |->
     [isLeaf |-> TRUE,
      bbox |-> BoxOfPoints({tris[i].a, tris[i].b, tris[i].c}),
      triangleIndex |-> 0,
      children |-> <<>>]]

\* buildBVH: one leaf per triangle, triangleIndex counted from 0.
InputNodes(tris) ==
  [i \in 1..Len(tris) |->
     [isLeaf |-> TRUE,
      bbox |-> BoxOfPoints({tris[i].a, tris[i].b, tris[i].c}),
      triangleIndex |-> i - 1,
      children |-> <<>>]]

\* The axis buildBVHRecursive sorts on (1 = x, 2 = y, 3 = z).
SplitAxis(size) ==
  IF size[1] > size[2] THEN (IF size[1] > size[3] THEN 1 ELSE 3) ELSE 2

\* Twice getCenter()[axis]; the order is that of the centers.
CenterKey(node, axis) == node.bbox.min[axis] + node.bbox.max[axis]

\* Array.prototype.sort with the center comparator: stable.
RECURSIVE InsertNode(_, _, _)
InsertNode(sorted, node, axis) ==
  IF sorted = <<>> THEN <<node>>
  ELSE LET last == sorted[Len(sorted)]
       IN IF CenterKey(last, axis) <= CenterKey(node, axis)
          THEN Append(sorted, node)
          ELSE Append(InsertNode(SubSeq(sorted, 1, Len(sorted) - 1), node, axis), last)

RECURSIVE SortNodes(_, _, _)
SortNodes(nodes, axis, sorted) ==
  IF nodes = <<>> THEN sorted
  ELSE SortNodes(Tail(nodes), axis, InsertNode(sorted, Head(nodes), axis))

\* The surface-area cost of splitting before position i (0-based, as slice).
SplitCost(nodes, i) ==
  GetSurfaceArea(ComputeBBox(SubSeq(nodes, 1, i))) * i
  + GetSurfaceArea(ComputeBBox(SubSeq(nodes, i + 1, Len(nodes)))) * (Len(nodes) - i)

\* The loop over the split positions i, i + 1, ..., n - 1: minIndex is -1 while
\* minCost is still Infinity; cost < minCost keeps the earlier of equal costs.
RECURSIVE SplitLoop(_, _, _, _)
SplitLoop(nodes, i, minCost, minIndex) ==
  IF i >= Len(nodes) THEN minIndex
  ELSE LET cost == SplitCost(nodes, i)
       IN IF minIndex = -1 \/ cost < minCost
          THEN SplitLoop(nodes, i + 1, cost, i)
          ELSE SplitLoop(nodes, i + 1, minCost, minIndex)

\* The position the sorted array is split at.
MinIndex_median(nodes) == Len(nodes) \div 2
MinIndex(nodes) == SplitLoop(nodes, 1, 0, -1)

\* buildBVHRecursive on a non-empty array of nodes.
RECURSIVE BuildBVHRecursive(_)
BuildBVHRecursive(inputNodes) ==
  IF Len(inputNodes) = 1 THEN inputNodes[1]
  ELSE LET bbox == ComputeBBox(inputNodes)
       IN IF Len(inputNodes) = 2
          THEN [isLeaf |-> FALSE, bbox |-> bbox, triangleIndex |-> -1,
                children |-> <<inputNodes[1], inputNodes[2]>>]
          ELSE LET sorted == SortNodes(inputNodes, SplitAxis(GetSize(bbox)), <<>>)
                   minIndex == MinIndex(sorted)
               IN [isLeaf |-> FALSE, bbox |-> bbox, triangleIndex |-> -1,
                   children |-> <<BuildBVHRecursive(SubSeq(sorted, 1, minIndex)),
                                  BuildBVHRecursive(SubSeq(sorted, minIndex + 1,
                                                           Len(sorted)))>>]

\* flattenBVH, first loop: the nodes in breadth-first order.
RECURSIVE BreadthFirst(_, _)
RECURSIVE BreadthFirst_depthFirst(_, _)
BreadthFirst_depthFirst(queue, nodes) ==
  IF queue = <<>> THEN nodes
  ELSE BreadthFirst_depthFirst(Head(queue).children \o Tail(queue), Append(nodes, Head(queue)))
BreadthFirst(queue, nodes) ==
  IF queue = <<>> THEN nodes
  ELSE BreadthFirst(Tail(queue) \o Head(queue).children, Append(nodes, Head(queue)))

\* Array.prototype.indexOf, 0-based.
IndexOf(nodes, node) ==
  (CHOOSE i \in 1..Len(nodes) :
     nodes[i] = node /\ \A j \in 1..(i - 1) : nodes[j] # node) - 1

\* flattenBVH.
FlattenBVH(rootNode) ==
  LET nodes == BreadthFirst(<<rootNode>>, <<>>)
  IN [i \in 1..Len(nodes) |->
        [min |-> nodes[i].bbox.min,
         max |-> nodes[i].bbox.max,
         isLeaf |-> IF nodes[i].isLeaf THEN 1 ELSE 0,
         left |-> IF nodes[i].isLeaf THEN -1 ELSE IndexOf(nodes, nodes[i].children[1]),
         right |-> IF nodes[i].isLeaf THEN -1 ELSE IndexOf(nodes, nodes[i].children[2]),
         triangleIndex |-> nodes[i].triangleIndex]]

\* raySceneIntersect of the first integrator (shaders/raytrace.wgsl): the
\* linear scan over all triangles, from triangle i (1-based) on.
RECURSIVE LinearScan(_, _, _, _)
LinearScan(r, tris, i, closestHit) ==
  IF i > Len(tris) THEN closestHit
  ELSE LET h == RayTriangleIntersect(r, tris[i], i - 1)
       IN LinearScan(r, tris, i + 1,
                     IF h.hit /\ FracLess(h.t, closestHit.t) THEN h ELSE closestHit)

\* The scenes and rays the build and the traversal are run on.
Triangle(a, b, c) == [a |-> a, b |-> b, c |-> c]

TrianglePool ==
  { Triangle(<<0, 0, 2>>, <<4, 0, 2>>, <<0, 4, 2>>),
    Triangle(<<0, 0, 4>>, <<4, 0, 4>>, <<0, 4, 4>>),
    Triangle(<<4, 4, 3>>, <<0, 4, 3>>, <<4, 0, 3>>),
    Triangle(<<2, 0, 0>>, <<2, 4, 0>>, <<2, 0, 4>>),
    Triangle(<<0, 0, 1>>, <<4, 0, 5>>, <<0, 4, 5>>),
    Triangle(<<5, 5, 0>>, <<6, 5, 0>>, <<5, 6, 1>>) }

Scenes == UNION { [1..n -> TrianglePool] : n \in 0..MaxTris }

Rays ==
  [origin : {<<1, 1, 0>>, <<1, 1, 3>>},
   direction : {<<0, 0, 1>>, <<0, 0, -1>>, <<1, 0, 1>>, <<1, 1, 1>>, <<1, 0, 0>>}]

\* The stack depths the traversal is run with: MAX_STACK_SIZE, and depths too
\* small for the trees of the scenes above.
StackLimits == {MAX_STACK_SIZE} \cup (2..TinyStack)

InitBVH ==
  /\ RendererInit
  /\ frames = MinFrames
  /\ triangles \in Scenes
  /\ bvhNodes = <<>>
  /\ ray = [origin |-> <<0, 0, 0>>, direction |-> <<0, 0, 1>>]
  /\ stack = <<>>
  /\ hit = NoHit
  /\ NoEnvironment
  /\ NoProbe
  /\ NoTiming
  /\ NoKeyboard
  /\ stackLimit \in StackLimits
  /\ pc = "scene"

\* updateScene, "Build BVH and update BVH buffer": buildBVH, flattenBVH and
\* the upload.  buildBVHRecursive throws on an empty array and updateScene is
\* left with the buffers as they were.
BuildScene ==
  /\ pc = "scene"
  /\ IF BuildThrows(Len(triangles))
     THEN /\ pc' = "threw"
          /\ UNCHANGED bvhNodes
     ELSE /\ bvhNodes' = FlattenBVH(BuildBVHRecursive(InputNodes(triangles)))
          /\ pc' = "built"
  /\ UNCHANGED <<rvars, evars, kvars, svars, tvars, triangles, ray, stack, hit, stackLimit>>

\* raySceneIntersect and the head of rayBVHIntersect(ray, 0): the empty
\* buffer and the root's box are tested, then the root is pushed.
RaySceneIntersect(r) ==
  /\ pc = "built"
  /\ ray' = r
  /\ hit' = NoHit
  /\ IF Len(bvhNodes) = 0
     THEN /\ pc' = "done"
          /\ UNCHANGED stack
     ELSE IF ~RayAABBIntersect(r, bvhNodes[1].min, bvhNodes[1].max)
          THEN /\ pc' = "done"
               /\ UNCHANGED stack
          ELSE /\ stack' = <<0>>
               /\ pc' = "loop"
  /\ UNCHANGED <<rvars, evars, kvars, svars, tvars, triangles, bvhNodes, stackLimit>>

\* The children of an internal node whose boxes the ray meets, left first.
PushChildren(r, nodes, node) ==
  (IF node.left >= 0 /\ RayAABBIntersect(r, nodes[node.left + 1].min, nodes[node.left + 1].max)
   THEN <<node.left>> ELSE <<>>)
  \o (IF node.right >= 0
         /\ RayAABBIntersect(r, nodes[node.right + 1].min, nodes[node.right + 1].max)
      THEN <<node.right>> ELSE <<>>)

\* The body of rayBVHIntersect's while loop after the overflow test: the top
\* of the stack is popped; a leaf's triangle is tested against the best hit,
\* an internal node's children are pushed.
LoopBody(r, nodes, tris, stk, h) ==
  LET currentNode == nodes[stk[Len(stk)] + 1]
      popped == SubSeq(stk, 1, Len(stk) - 1)
      triangleHit == RayTriangleIntersect(r, tris[currentNode.triangleIndex + 1],
                                          currentNode.triangleIndex)
  IN IF currentNode.isLeaf = 1
     THEN [stack |-> popped,
           hit |-> IF triangleHit.hit /\ FracLess(triangleHit.t, h.t)
                   THEN triangleHit ELSE h]
     ELSE [stack |-> popped \o PushChildren(r, nodes, currentNode), hit |-> h]

StackFull_late(size, limit) == size > limit

\* The overflow test at the top of the loop: stackSize >= MAX_STACK_SIZE.
StackFull(size, limit) == size >= limit

\* One iteration of rayBVHIntersect's while loop; the loop is left when the
\* stack is full ("overflow") or empty ("done").
TraverseStep ==
  /\ pc = "loop"
  /\ IF StackFull(Len(stack), stackLimit)
     THEN /\ pc' = "overflow"
          /\ UNCHANGED <<stack, hit>>
     ELSE LET body == LoopBody(ray, bvhNodes, triangles, stack, hit)
          IN /\ stack' = body.stack
             /\ hit' = body.hit
             /\ pc' = IF body.stack = <<>> THEN "done" ELSE "loop"
  /\ UNCHANGED <<rvars, evars, kvars, svars, tvars, triangles, bvhNodes, ray, stackLimit>>

\* rayBVHIntersect's while loop run to its return, with a stack of the given
\* depth.
RECURSIVE RayBVHLoop(_, _, _, _, _, _)
RayBVHLoop(r, nodes, tris, stk, h, depth) ==
  IF stk = <<>> \/ StackFull(Len(stk), depth) THEN h
  ELSE LET body == LoopBody(r, nodes, tris, stk, h)
       IN RayBVHLoop(r, nodes, tris, body.stack, body.hit, depth)

\* rayBVHIntersect(ray, 0) with a stack of the given depth.
RayBVHIntersect(r, nodes, tris, depth) ==
  IF ~RayAABBIntersect(r, nodes[1].min, nodes[1].max) THEN NoHit
  ELSE RayBVHLoop(r, nodes, tris, <<0>>, NoHit, depth)

NextBVH ==
  \/ BuildScene
  \/ \E r \in Rays : RaySceneIntersect(r)
  \/ TraverseStep

SpecBVH == InitBVH /\ [][NextBVH]_vars

(***************************************************************************)
(* Claims about the builder and the traversal.                             *)
(***************************************************************************)

\* The triangles of the scene the ray of the traversal intersects.
Intersected == {i \in 1..Len(triangles) : RayTriangleIntersect(ray, triangles[i], i - 1).hit}

\* C9: building the BVH of a scene without triangles raises no error and
\* yields an empty node array, against which every ray reports no hit.
C9_EmptySceneBuilds ==
  (Len(triangles) = 0 /\ pc # "scene")
    => /\ pc # "threw"
       /\ bvhNodes = <<>>
       /\ (pc = "done" => ~hit.hit)

C11_TinyStackNonWorse ==
  pc \in {"done", "overflow"}
    => LET full == RayBVHIntersect(ray, bvhNodes, triangles, MAX_STACK_SIZE)
       IN full.hit => hit.hit /\ ~FracLess(full.t, hit.t)

\* updateScene has built and flattened the tree (no later step changes it).
Built == pc = "built"

\* The entries of the node array, by their 0-based index.
Node(i) == bvhNodes[i + 1]

Internal == {i \in 0..(Len(bvhNodes) - 1) : Node(i).isLeaf = 0}

\* C12: in every tree the builder produces, the box of each internal node is
\* the component-wise union of the boxes of its two children (minimum of the
\* mins, maximum of the maxes), and so contains both.
C12_InternalBoxIsUnion ==
  Built =>
    \A i \in Internal : \A k \in 1..3 :
      /\ Node(i).min[k] = Min2(Node(Node(i).left).min[k], Node(Node(i).right).min[k])
      /\ Node(i).max[k] = Max2(Node(Node(i).left).max[k], Node(Node(i).right).max[k])
      /\ Node(i).min[k] <= Node(Node(i).left).min[k]
      /\ Node(i).min[k] <= Node(Node(i).right).min[k]
      /\ Node(i).max[k] >= Node(Node(i).left).max[k]
      /\ Node(i).max[k] >= Node(Node(i).right).max[k]

\* A tree over three triangles: the root has an internal child, and the boxes
\* of the root's children differ from the root's and from each other.
C12_Witness ==
  /\ Built
  /\ Len(bvhNodes) = 5
  /\ \E i \in Internal : i > 0
  /\ <<Node(Node(0).left).min, Node(Node(0).left).max>>
       # <<Node(Node(0).right).min, Node(Node(0).right).max>>
  /\ <<Node(0).min, Node(0).max>> # <<Node(Node(0).left).min, Node(Node(0).left).max>>
  /\ <<Node(0).min, Node(0).max>> # <<Node(Node(0).right).min, Node(Node(0).right).max>>

\* The tree an entry of the node array stands for, read back through the
\* left and right indices.
RECURSIVE Subtree(_)
Subtree(i) ==
  [isLeaf |-> Node(i).isLeaf = 1,
   bbox |-> [min |-> Node(i).min, max |-> Node(i).max],
   triangleIndex |-> Node(i).triangleIndex,
   children |-> IF Node(i).isLeaf = 1 THEN <<>>
                ELSE <<Subtree(Node(i).left), Subtree(Node(i).right)>>]

\* C13: the node array lists the tree breadth-first from the root at index 0:
\* a leaf entry has left = right = -1 and a triangleIndex >= 0; an internal
\* entry has triangleIndex = -1 and its left and right are the indices of its
\* two children, distinct, inside the array and greater than its own index;
\* the children of the internal entries, taken in index order, are the
\* entries 1, 2, 3, ... in that order.
C13_FlatLayout ==
  Built =>
    /\ Len(bvhNodes) = 2 * Len(triangles) - 1
    /\ \A i \in 0..(Len(bvhNodes) - 1) :
         IF Node(i).isLeaf = 1
         THEN /\ Node(i).left = -1 /\ Node(i).right = -1
              /\ Node(i).triangleIndex >= 0
              /\ Node(i).triangleIndex < Len(triangles)
         ELSE /\ Node(i).isLeaf = 0
              /\ Node(i).triangleIndex = -1
              /\ Node(i).left # Node(i).right
              /\ Node(i).left > i /\ Node(i).left < Len(bvhNodes)
              /\ Node(i).right > i /\ Node(i).right < Len(bvhNodes)
              /\ Node(i).left = 2 * Cardinality({j \in Internal : j < i}) + 1
              /\ Node(i).right = Node(i).left + 1
    /\ Subtree(0) = BuildBVHRecursive(InputNodes(triangles))

\* A flattened tree over three triangles whose root has an internal left
\* child: the root's children are entries 1 and 2, the left child's are 3, 4.
C13_Witness ==
  /\ Built
  /\ Len(bvhNodes) = 5
  /\ Node(0).left = 1 /\ Node(0).right = 2
  /\ Node(1).isLeaf = 0
  /\ Node(1).left = 3 /\ Node(1).right = 4
  /\ Node(2).isLeaf = 1

\* The extents of the box of the whole primitive set, the set the first call
\* of buildBVHRecursive sorts and splits.
RootSize == GetSize(ComputeBBox(InputNodes(triangles)))

\* C14: for a primitive set of more than two elements the axis the builder
\* sorts on is one along which the set's box has its greatest extent.
C14_SplitAxisIsLongest ==
  (Built /\ Len(triangles) > 2)
    => \A k \in 1..3 : RootSize[SplitAxis(RootSize)] >= RootSize[k]

\* The array buildBVHRecursive splits: its input sorted by box centre along
\* the split axis.
SortedInput(inputNodes) ==
  SortNodes(inputNodes, SplitAxis(GetSize(ComputeBBox(inputNodes))), <<>>)

\* The split of one call of buildBVHRecursive on more than two nodes, and of
\* the calls it makes: the array is ordered by centre, the index lies in
\* 1..n-1 and no partition point costs less.
RECURSIVE SplitsMinimal(_)
SplitsMinimal(inputNodes) ==
  LET n == Len(inputNodes)
      sorted == SortedInput(inputNodes)
      axis == SplitAxis(GetSize(ComputeBBox(inputNodes)))
      m == MinIndex(sorted)
  IN n > 2 =>
       /\ \A i \in 1..(n - 1) : CenterKey(sorted[i], axis) <= CenterKey(sorted[i + 1], axis)
       /\ m \in 1..(n - 1)
       /\ \A j \in 1..(n - 1) : SplitCost(sorted, m) <= SplitCost(sorted, j)
       /\ Len(SubSeq(sorted, 1, m)) \in 1..(n - 1)
       /\ Len(SubSeq(sorted, m + 1, n)) \in 1..(n - 1)
       /\ SplitsMinimal(SubSeq(sorted, 1, m))
       /\ SplitsMinimal(SubSeq(sorted, m + 1, n))

\* The number of leaves below an entry of the node array.
RECURSIVE Leaves(_)
Leaves(i) == IF Node(i).isLeaf = 1 THEN 1 ELSE Leaves(Node(i).left) + Leaves(Node(i).right)

\* C15: for every primitive set of n > 2 elements, sorted by box centre along
\* the split axis, the split index lies in 1..n-1 and minimises
\* area(leftBox) * |left| + area(rightBox) * |right| over the n - 1 partition
\* points; both halves handed to the recursion are non-empty and smaller than
\* the set, and the built tree's root divides the leaves at that index.
C15_SplitMinimisesCost ==
  (Built /\ Len(triangles) > 2)
    => /\ SplitsMinimal(InputNodes(triangles))
       /\ Leaves(Node(0).left) = MinIndex(SortedInput(InputNodes(triangles)))
       /\ Leaves(Node(0).right) = Len(triangles) - Leaves(Node(0).left)

\* A built set of three triangles for which the partition points differ in
\* cost and the cheaper one is the later one.
C15_Witness ==
  /\ Built
  /\ Len(triangles) = 3
  /\ MinIndex(SortedInput(InputNodes(triangles))) = 2
  /\ SplitCost(SortedInput(InputNodes(triangles)), 2)
       < SplitCost(SortedInput(InputNodes(triangles)), 1)

ProgressEvents(evs) == SelectSeq(evs, LAMBDA ev : ev.name = "progress")

\* C17: a tick emits one "progress" event if it sampled and none otherwise;
\* the event carries frame / (frames + 1) for the frame counter at the moment
\* of emission, a value in (0, 1] that is greater than that of the previous
\* progress event of the same accumulation run; nothing but a tick emits
\* "progress".
C17_ProgressValues ==
  [][LET evs == ProgressEvents(emitted')
         sampled == \E i \in 1..Len(encoded') : encoded'[i] = "raytrace"
     IN IF Render /\ sampled
        THEN /\ Len(evs) = 1
             /\ evs[1].num = frame' /\ evs[1].den = frames' + 1
             /\ 0 < evs[1].num /\ evs[1].num <= evs[1].den
             /\ lastProgress.num * evs[1].den < evs[1].num * lastProgress.den
             /\ lastProgress' = [num |-> evs[1].num, den |-> evs[1].den]
        ELSE Len(evs) = 0]_vars

(***************************************************************************)
(* Part III.  The environment map: Renderer.updateEnvironmentTexture.      *)
(*                                                                         *)
(* The image is scaled down to EnvWidth x EnvHeight texels.  Sums and      *)
(* quotients are exact: a CDF entry is the fraction of two integer sums,   *)
(* or NaN where the program divides 0 by 0.  Luminances carry the factor   *)
(* 10000 of their coefficients; sin(theta) of a row is replaced by the     *)
(* positive weight (2y + 1)(2h - 2y - 1), which like the sine is symmetric *)
(* about the middle row and greatest there.                                *)
(***************************************************************************)

\* 0.2126 r + 0.7152 g + 0.0722 b, times 10000.
Luminance(p) == 2126 * p[1] + 7152 * p[2] + 722 * p[3]

\* The weight of row y (0-based) of an image of h rows.
RowWeight(y, h) == (2 * y + 1) * (2 * h - 2 * y - 1)

RECURSIVE SumTo(_, _)
SumTo(f, n) == IF n = 0 THEN 0 ELSE f[n] + SumTo(f, n - 1)

\* rowTotalWeightedLuminances before the division by total.
RowTotalWeighted(data, y) ==
  SumTo([x \in 1..Len(data[y]) |-> Luminance(data[y][x]) * RowWeight(y - 1, Len(data))],
        Len(data[y]))

\* marginalCDF[y]: the sum of the normalised totals of the rows before row y;
\* the sum of no rows is 0 whatever the total.
MarginalCDF(data, y) ==
  IF y = 1 THEN Num(0, 1)
  ELSE Num(SumTo([i \in 1..(y - 1) |-> RowTotalWeighted(data, i)], y - 1),
           SumTo([i \in 1..Len(data) |-> RowTotalWeighted(data, i)], Len(data)))

\* conditionalCDF[i] for column x of row y: the sum of luminance / rowTotal
\* over the columns before x.
ConditionalCDF(data, y, x) ==
  IF x = 1 THEN Num(0, 1)
  ELSE Num(SumTo([j \in 1..(x - 1) |-> Luminance(data[y][j])], x - 1),
           SumTo([j \in 1..Len(data[y]) |-> Luminance(data[y][j])], Len(data[y])))

\* The cdf array written to environmentCDFTexture.
CDFTexels(data) ==
  [y \in 1..Len(data) |-> [x \in 1..Len(data[y]) |->
     [marginal |-> MarginalCDF(data, y), conditional |-> ConditionalCDF(data, y, x)]]]

\* The two checks at the head of updateEnvironmentTexture: the error thrown,
\* or "none".
EnvironmentError_sizeOnly(texture) ==
  IF texture.width # EnvWidth \/ texture.height # EnvHeight
  THEN "Environment texture must be 1024x512 pixels."
  ELSE "none"
EnvironmentError(texture) ==
  IF texture.width # EnvWidth \/ texture.height # EnvHeight
  THEN "Environment texture must be 1024x512 pixels."
  ELSE IF texture.type # "FloatType"
       THEN "Environment texture must be a floating point texture."
       ELSE "none"

\* The pixels of the images, all with non-negative channels.
Pixels == {<<0, 0, 0>>, <<1, 1, 1>>, <<0, 1, 0>>}

Images(w, h) == [1..h -> [1..w -> Pixels]]

UniformImages(w, h) == {[y \in 1..h |-> [x \in 1..w |-> p]] : p \in Pixels}

\* The textures passed to updateEnvironmentTexture: every image of the
\* required size, and images one column wider or one row shorter, as
\* FloatType or HalfFloatType data.
Textures ==
  {[width |-> EnvWidth, height |-> EnvHeight, type |-> ty, data |-> img] :
     ty \in {"FloatType", "HalfFloatType"}, img \in Images(EnvWidth, EnvHeight)}
  \cup {[width |-> EnvWidth + 1, height |-> EnvHeight, type |-> ty, data |-> img] :
          ty \in {"FloatType", "HalfFloatType"}, img \in UniformImages(EnvWidth + 1, EnvHeight)}
  \cup {[width |-> EnvWidth, height |-> EnvHeight - 1, type |-> ty, data |-> img] :
          ty \in {"FloatType", "HalfFloatType"}, img \in UniformImages(EnvWidth, EnvHeight - 1)}

\* The renderer as constructed, or after an earlier environment was loaded.
InitEnv ==
  /\ RendererInit
  /\ frames = MinFrames
  /\ NoTraversal
  /\ NoProbe
  /\ NoTiming
  /\ NoKeyboard
  /\ envInput = NoTexture
  /\ envError = "none"
  /\ \/ /\ environmentTexture = BlankEnvironmentTexture
        /\ environmentCDFTexture = BlankCDFTexture
     \/ \E img \in UniformImages(EnvWidth, EnvHeight) :
          /\ environmentTexture = img
          /\ environmentCDFTexture = CDFTexels(img)

\* Renderer.updateEnvironmentTexture(texture)
UpdateEnvironmentTexture(texture) ==
  /\ envInput = NoTexture
  /\ envInput' = texture
  /\ envError' = EnvironmentError(texture)
  /\ IF EnvironmentError(texture) # "none"
     THEN UNCHANGED <<environmentTexture, environmentCDFTexture>>
     ELSE /\ environmentTexture' = texture.data
          /\ environmentCDFTexture' = CDFTexels(texture.data)
  /\ UNCHANGED <<rvars, bvars, kvars, svars, tvars>>

NextEnv == \E texture \in Textures : UpdateEnvironmentTexture(texture)

SpecEnv == InitEnv /\ [][NextEnv]_vars

\* The texture is one updateEnvironmentTexture accepts.
Accepted(texture) ==
  texture.width = EnvWidth /\ texture.height = EnvHeight /\ texture.type = "FloatType"

\* C18: updateEnvironmentTexture throws an error for every texture whose image
\* has not the required size or whose type is not FloatType, and leaves the
\* environment texture and the CDF texture as they were.
C18_RejectsBeforeWriting ==
  [][(envInput' # envInput /\ ~Accepted(envInput'))
       => /\ envError' # "none"
          /\ environmentTexture' = environmentTexture
          /\ environmentCDFTexture' = environmentCDFTexture]_vars

\* A half-float image of the required size was rejected while an earlier
\* environment was loaded, and that environment is still in place.
C18_Witness ==
  /\ envInput.type = "HalfFloatType"
  /\ envInput.width = EnvWidth /\ envInput.height = EnvHeight
  /\ envError # "none"
  /\ environmentTexture # BlankEnvironmentTexture
  /\ environmentTexture # envInput.data

\* A stored CDF value lies in [0, 1].
InUnit(v) == ~v.nan /\ 0 <= v.n /\ v.n <= v.d

\* v is not greater than w; both are sums over one total or are 0.
NotGreater(v, w) == ~v.nan /\ ~w.nan /\ v.n * w.d <= w.n * v.d

\* C20: after an image with non-negative pixel values was accepted, the
\* marginal CDF over the rows and every row's conditional CDF over the columns
\* are non-decreasing, and every stored CDF value lies in [0, 1].
C20_CDFsMonotoneInUnit ==
  Accepted(envInput) =>
    /\ \A y \in 1..EnvHeight : \A x \in 1..EnvWidth :
         /\ InUnit(environmentCDFTexture[y][x].marginal)
         /\ InUnit(environmentCDFTexture[y][x].conditional)
    /\ \A y \in 1..(EnvHeight - 1) :
         NotGreater(environmentCDFTexture[y][1].marginal,
                    environmentCDFTexture[y + 1][1].marginal)
    /\ \A y \in 1..EnvHeight : \A x \in 1..(EnvWidth - 1) :
         NotGreater(environmentCDFTexture[y][x].conditional,
                    environmentCDFTexture[y][x + 1].conditional)


(***************************************************************************)
(* Part IV: the per-pixel random seed of the integrator (raytrace.wgsl).   *)
(* A u32 is kept as two 16-bit halves so that the arithmetic wraps at      *)
(* 2^32 as the shader's does.                                              *)
(***************************************************************************)

Half == 65536

SEED == 123456789

FrameStride == 719393

U32(n) == [hi |-> (n \div Half) % Half, lo |-> n % Half]

AddU32(a, b) ==
  LET lo == a.lo + b.lo
  IN [hi |-> (a.hi + b.hi + (lo \div Half)) % Half, lo |-> lo % Half]

\* a.lo stays below 2^15 here (a is a frame number), so no product leaves
\* the range of the checker's integers.
MulU32(a, b) ==
  LET low == a.lo * b.lo
      cross == a.lo * b.hi + a.hi * b.lo
  IN [hi |-> ((low \div Half) + cross) % Half, lo |-> low % Half]

\* let index = globalId.x + globalId.y * u32(uniforms.resolution.x);
PixelIndex(x, y, res) == x + y * res

Seed_noFrame(index, f) == AddU32(U32(index), U32(SEED))

\* var seed = index + uniforms.frame * 719393u + SEED;
Seed(index, f) ==
  AddU32(AddU32(U32(index), MulU32(U32(f), U32(FrameStride))), U32(SEED))

\* The invocations of a dispatch: globalId.x and globalId.y below the
\* resolution the uniforms hold.
PixelCoords == 0..(uniforms.resolution - 1)

StartSeed(x, y) == Seed(PixelIndex(x, y, uniforms.resolution), uniforms.frame)

\* C19: on the k-th sampled tick since the last reset (k = sampledTicks),
\* at whatever status history, budget, knob values or scene led there,
\* every pixel starts with the PRNG state
\* (pixelIndex + (k + 1) * 719393 + 123456789) mod 2^32: a function of the
\* pixel index and k alone, hence equal between any two accumulation runs at
\* the same resolution.
C19_SeedDeterministic ==
  dispatched.bound =>
    /\ dispatched.frame = uniforms.frame
    /\ \A x \in PixelCoords : \A y \in PixelCoords :
         StartSeed(x, y) =
           U32(PixelIndex(x, y, uniforms.resolution)
               + (sampledTicks + 1) * 719393 + 123456789)

\* A second run (after a reset) on its second sampled tick, at a resolution
\* with more than one pixel.
C19_Witness ==
  /\ dispatched.bound
  /\ textures >= 2
  /\ sampledTicks >= 2
  /\ uniforms.resolution >= 2

(***************************************************************************)
(* Part V: further properties of the renderer, the builder and traversal.  *)
(***************************************************************************)

NoSamplingPass(passes) ==
  \A i \in 1..Len(passes) : passes[i] \notin {"raytrace", "accumulate"}

\* What a tick does while the renderer is paused or idle.
StoppedTick ==
  status \in {"paused", "idle"} /\ Render =>
    /\ frame' = frame
    /\ status' = status
    /\ NoSamplingPass(encoded')
    /\ ~Has(emitted', "progress")
    /\ ~Has(emitted', "complete")

C22_AbortOnlyOnOverflow ==
  pc = "overflow" =>
    Len(LoopBody(ray, bvhNodes, triangles, stack, hit).stack) > stackLimit

\* C23: the stack size stays within [0, MAX_STACK_SIZE], and every write to
\* the stack (the pushes of an iteration fill the 0-based slots from the
\* popped size up to the new size - 1) uses an index of [0, MAX_STACK_SIZE - 1].
C23_StackWithinBounds ==
  /\ [](Len(stack) <= stackLimit)
  /\ [][TraverseStep /\ pc' # "overflow" =>
          \A k \in (Len(stack) - 1)..(Len(stack') - 1) :
            k >= 0 /\ k <= stackLimit - 1]_vars

\* A traversal whose stack is full: as many pending nodes as the stack holds.
C23_Witness ==
  /\ pc \in {"loop", "overflow"}
  /\ Len(stack) = stackLimit

(***************************************************************************)
(* Part VI: the keyboard controls (controls/keyboard.ts).  Only the keys   *)
(* that change the lens are modelled; the movement and rotation keys touch *)
(* position and rotation alone.                                            *)
(***************************************************************************)

\* clamp(value, min, max) of utils.
Clamp(value, lo, hi) == Max2(lo, Min2(value, hi))

LensKeys == {"-", "=", "[", "]", "q", "e"}

Pressed(keys, k, step) == IF k \in keys THEN step ELSE 0

\* The values the camera pane lets the user set: fov 10..120, focalDistance
\* 0.1..10, aperture 0..0.5; and the constructed camera.
InitKeys ==
  /\ RendererInit
  /\ frames = MinFrames
  /\ NoTraversal
  /\ NoEnvironment
  /\ NoProbe
  /\ NoTiming
  /\ fov \in {20, 90, 240}
  /\ aperture \in {0, 50}
  /\ focalDistance \in {1, 10, 100}
  /\ updates = 0

\* KeyboardControls.update() with the given keys held.
KeyboardUpdate(keys) ==
  /\ updates < MaxUpdates
  /\ updates' = updates + 1
  /\ fov' = LET down == IF "-" \in keys THEN Clamp(fov - 1, 2, 240) ELSE fov
            IN IF "=" \in keys THEN Clamp(down + 1, 2, 240) ELSE down
  /\ aperture' = LET down == IF "[" \in keys THEN Clamp(aperture - 1, 0, 50) ELSE aperture
                 IN IF "]" \in keys THEN Clamp(down + 1, 0, 50) ELSE down
  /\ focalDistance' = focalDistance - Pressed(keys, "q", 1) + Pressed(keys, "e", 1)
  /\ UNCHANGED <<rvars, bvars, evars, svars, tvars>>

NextKeys == \E keys \in SUBSET LensKeys : KeyboardUpdate(keys)

SpecKeys == InitKeys /\ [][NextKeys]_vars

\* C24: whatever keys are held over whatever number of update() calls, the
\* camera keeps focalDistance > 0, aperture >= 0 and fov within [1, 120].
C24_LensStaysValid ==
  /\ focalDistance > 0
  /\ aperture >= 0
  /\ fov >= 2
  /\ fov <= 240

(***************************************************************************)
(* Further claims about the renderer's events.                             *)
(***************************************************************************)

\* C25: "complete" is the last event of an accumulation run: among the
\* events one handler emits none follows "complete", and once "complete" was
\* emitted no "progress" or second "complete" is emitted before the next
\* reset.
C25_CompleteIsLast ==
  /\ [](\A i \in 1..Len(emitted) :
         emitted[i].name = "complete" => i = Len(emitted))
  /\ [][Has(emitted, "complete") /\ ~Has(emitted', "reset") =>
          ~Has(emitted', "progress") /\ ~Has(emitted', "complete")]_vars

\* C26: a handler emits "start" exactly when it changes status from idle or
\* paused to sampling.
C26_StartOnResume ==
  [][Has(emitted', "start") <=>
       (status \in {"idle", "paused"} /\ status' = "sampling")]_vars

\* C27: an integrator dispatch is bound to the buffers of the latest scene
\* build, never to those of an earlier one.
C27_DispatchBoundToLatestBuild ==
  dispatched.bound =>
    /\ dispatched.group.triangleBuffer = triangleBuffer
    /\ dispatched.group.materialBuffer = materialBuffer
    /\ dispatched.group.bvhBuffer = bvhBuffer

\* C28: the flattened BVH of n >= 1 triangles has 2n - 1 nodes, n of them
\* leaves and n - 1 internal, and every triangle index 0..n-1 is that of
\* exactly one leaf.
C28_NodeCount ==
  Built =>
    LET n == Len(triangles)
        leaves == {i \in 0..(Len(bvhNodes) - 1) : Node(i).isLeaf = 1}
    IN /\ n >= 1
       /\ Len(bvhNodes) = 2 * n - 1
       /\ Cardinality(leaves) = n
       /\ Cardinality(Internal) = n - 1
       /\ \A t \in 0..(n - 1) :
            Cardinality({i \in leaves : Node(i).triangleIndex = t}) = 1
       /\ \A i \in leaves : Node(i).triangleIndex \in 0..(n - 1)

\* A built scene of at least three triangles, two of them the same triangle.
C28_Witness ==
  /\ Built
  /\ Len(triangles) >= 3
  /\ \E i, j \in 1..Len(triangles) : i # j /\ triangles[i] = triangles[j]

(***************************************************************************)
(* Part VII: the seeds of two invocations of computeMain within one        *)
(* accumulation run: the same image size and budget, frame numbers among   *)
(* those the run's sampled ticks write to the uniforms (2..frames + 1).    *)
(***************************************************************************)

\* Scaled image sizes (canvas size times scaling factor): a tiny canvas, and
\* 1024x768 and 1920x1080 at the 100% scale.
ImageSizes == {<<2, 2>>, <<1024, 768>>, <<1920, 1080>>}

\* globalId.x and globalId.y of the invocations compared.
ProbeX == {0, 1, 545, 1313}

ProbeY == {0, 1, 374, 702}

InitSeed ==
  /\ RendererInit
  /\ frames = MinFrames
  /\ NoTraversal
  /\ NoEnvironment
  /\ NoKeyboard
  /\ NoProbe
  /\ NoTiming

\* Two invocations of computeMain in ticks of one run; the guard is
\* computeMain's bounds test, and the run's frame numbers.
ComputeMain(size, budget, a, b) ==
  /\ probe = NoInvocation
  /\ a[1] < size[1] /\ a[2] < size[2]
  /\ b[1] < size[1] /\ b[2] < size[2]
  /\ a[3] <= budget + 1 /\ b[3] <= budget + 1
  /\ probe' = [width |-> size[1], height |-> size[2], frames |-> budget, a |-> a, b |-> b]
  /\ UNCHANGED <<rvars, bvars, evars, kvars, tvars>>

NextSeed ==
  \E size \in ImageSizes, budget \in MinFrames..MaxFrames :
    \E a, b \in ProbeX \X ProbeY \X (2..(MaxFrames + 1)) :
      ComputeMain(size, budget, a, b)

SpecSeed == InitSeed /\ [][NextSeed]_vars

\* The seed an invocation starts with.
ProbeSeed(p) == Seed(PixelIndex(p[1], p[2], probe.width), p[3])

\* C29: within one accumulation run two distinct (pixel, frame) pairs start
\* with distinct PRNG states.
C29_SeedsDistinct ==
  probe.a # probe.b => ProbeSeed(probe.a) # ProbeSeed(probe.b)

(***************************************************************************)
(* Part VIII: TimingHelper (timing.ts).  A call whose assertion fails      *)
(* throws before it changes anything, so the assertions are guards.        *)
(***************************************************************************)

PickResultBuffer_keep(pool, current, fresh) == IF current # 0 THEN current ELSE fresh

\* #resolveTiming: this.#resultBuffers.pop() || createBuffer(...)
PickResultBuffer(pool, current, fresh) ==
  IF pool # <<>> THEN pool[Len(pool)] ELSE fresh

\* beginComputePass / beginRenderPass
BeginComputePass ==
  /\ timingState = "free"
  /\ timingState' = "need resolve"
  /\ UNCHANGED <<resultBuffer, resultBuffers, mapping, created>>
  /\ UNCHANGED <<rvars, bvars, evars, kvars, svars>>

\* #resolveTiming, called by the pass's end(): the destination of the copy
\* is taken from the pool, or created when the pool is empty.
ResolveTiming ==
  /\ timingState = "need resolve"
  /\ resultBuffers # <<>> \/ created < MaxBuffers
  /\ timingState' = "wait for result"
  /\ resultBuffer' = PickResultBuffer(resultBuffers, resultBuffer, created + 1)
  /\ resultBuffers' = IF resultBuffers # <<>>
                      THEN SubSeq(resultBuffers, 1, Len(resultBuffers) - 1)
                      ELSE resultBuffers
  /\ created' = IF resultBuffers # <<>> THEN created ELSE created + 1
  /\ UNCHANGED mapping
  /\ UNCHANGED <<rvars, bvars, evars, kvars, svars>>

\* getResult up to its await: the state is freed and the map is requested.
GetResult ==
  /\ resultBuffer # 0
  /\ timingState = "wait for result"
  /\ timingState' = "free"
  /\ mapping' = mapping \cup {resultBuffer}
  /\ UNCHANGED <<resultBuffer, resultBuffers, created>>
  /\ UNCHANGED <<rvars, bvars, evars, kvars, svars>>

\* getResult after its await, for the call that holds buffer b: the times
\* are read, the buffer is unmapped and pushed onto the pool.
GetResultResume(b) ==
  /\ b \in mapping
  /\ mapping' = mapping \ {b}
  /\ resultBuffers' = Append(resultBuffers, b)
  /\ UNCHANGED <<timingState, resultBuffer, created>>
  /\ UNCHANGED <<rvars, bvars, evars, kvars, svars>>

InitTiming ==
  /\ RendererInit
  /\ frames = MinFrames
  /\ NoTraversal
  /\ NoEnvironment
  /\ NoKeyboard
  /\ NoProbe
  /\ NoTiming

NextTiming ==
  \/ BeginComputePass
  \/ ResolveTiming
  \/ GetResult
  \/ \E b \in 1..MaxBuffers : GetResultResume(b)

SpecTiming == InitTiming /\ [][NextTiming]_vars

\* C30: the buffer a resolve chooses as the destination of the copy has no
\* map request outstanding and is not mapped; nor has any buffer of the pool.
C30_DestinationNotMapped ==
  /\ [][ResolveTiming => resultBuffer' \notin mapping]_vars
  /\ [](timingState = "wait for result" => resultBuffer \notin mapping)
  /\ [](\A i \in 1..Len(resultBuffers) : resultBuffers[i] \notin mapping)

\* A resolve reused the first buffer while the second, requested by an
\* earlier tick, is still being mapped.
C30_Witness ==
  /\ timingState = "wait for result"
  /\ resultBuffer = 1
  /\ 2 \in mapping

====
